---------------------------- MODULE Spec2Model ----------------------------
(***************************************************************************)
(* Stable Scheduler (arnves/Stall-plan): the two-pass duty roster          *)
(* generator, the manual override cycler, the date range expander and the  *)
(* iCal serializer, modelled from src/unnamed/part_000 (the React          *)
(* application and the serializer's tests) and                             *)
(* src/src/utils/icalGenerator.js.                                         *)
(*                                                                         *)
(* A date string "YYYY-MM-DD" is the triple <<y, m, d>>.  A JavaScript     *)
(* Date object is the number of hours on the local clock since             *)
(* 1970-01-01T00:00 local time, for a zone with the fixed offset tz hours  *)
(* from UTC; the ECMAScript day/year/month arithmetic is written out.      *)
(***************************************************************************)
EXTENDS Integers, Sequences, FiniteSets, TLC

VARIABLES
    tz,           \* the environment's UTC offset in hours (local = UTC + tz)
    riders,       \* useState riders: sequence of [id, blockedDates]
    config,       \* useState config: [startDate, endDate]
    schedule,     \* useState schedule: date string -> rider id or Null
    view,         \* useState view: "setup" or "calendar"
    pc,           \* position inside generateSchedule: "idle", "pass1", "pass2"
    dates,        \* generateSchedule's local dates
    newSchedule,  \* generateSchedule's local newSchedule
    stats,        \* generateSchedule's local stats
    i,            \* index of the running forEach iteration (1-based)
    prior,        \* history: [schedule, view] published when the running generateSchedule was entered
    clickDay,     \* history: the day of the current run of manualAssign clicks
    clicks,       \* history: number of consecutive manualAssign calls on clickDay
    orig,         \* history: Lookup(schedule, clickDay) before the first of them
    before,       \* history: the schedule before the latest manualAssign call
    expanded,     \* result of the latest stand-alone generateDates call
    events,       \* the event list handed to generateICalContent
    ical,         \* its result: one VEVENT record per emitted block
    content,      \* the text generateICalContent returned for events
    download      \* the calendar document of the latest downloadICal call

vars == <<tz, riders, config, schedule, view, pc, dates, newSchedule, stats, i,
          prior, clickDay, clicks, orig, before, expanded, events, ical,
          content, download>>

appVars == <<riders, config, schedule, view>>
genVars == <<pc, dates, newSchedule, stats, i, prior>>
clickVars == <<clickDay, clicks, orig, before>>
pureVars == <<expanded, events, ical, content, download>>

-----------------------------------------------------------------------------
(* Bounds of the model.                                                    *)

\* hours west of UTC of the westernmost modelled zone
TzWest == 5
\* hours east of UTC of the easternmost modelled zone (0: UTC itself)
TzEast == 0
\* longest stand-alone range, in days after the start day
MaxSpan == 4
\* most events handed to generateICalContent in one call
MaxEvents == 1
\* largest roster of a generation run
GenRiders == 2
\* largest roster handed to manualAssign
ManRiders == 2
\* most weeks after the first Saturday in such a run
FairWeeks == 2
\* most (rider, day) pairs blocked in a generation run
GenBlocked == 2
\* days after the first day of the generation window that a range can end
GenDays == 5
\* most (rider, Saturday) pairs blocked in a run over two weekends
WkBlocked == 1
\* days after Saturday 2024-03-09 that a range over two weekends can end
WkDays == 1
\* most (rider, day) pairs blocked at a time in the application
AppBlocked == 1
\* longest title or description drawn from the characters escapeText treats
MaxShort == 2
\* longest description made of one repeated character
MaxLong == 140
\* most events in a list handed to the text serializer
MaxDocEvents == 2

TzOffsets == {0 - TzWest, TzEast}

-----------------------------------------------------------------------------
(* JavaScript values.                                                      *)

\* null, the explicit "unassigned" entry
Null == 0
\* undefined, the value of reading an absent key
Undefined == -1

\* no day: the value of clickDay outside a run of clicks
NoDay == <<0, 0, 0>>

\* obj[key]
Lookup(obj, key) == IF key \in DOMAIN obj THEN obj[key] ELSE Undefined

\* mutant of Put: the spread of the old object is left out
PutAlone(obj, key, value) == [k \in {key} |-> value]

\* {...obj, [key]: value}
Put(obj, key, value) ==
    [k \in (DOMAIN obj) \cup {key} |-> IF k = key THEN value ELSE obj[k]]

EmptyObject == [k \in {} |-> Null]

-----------------------------------------------------------------------------
(* ECMAScript Date arithmetic (ECMA-262, "Time Values and Time Range").    *)

\* InLeapYear
IsLeapYear(y) == (y % 4 = 0) /\ ((y % 100 # 0) \/ (y % 400 = 0))

\* DayFromYear: the day number of January 1st of year y
DayFromYear(y) ==
    365 * (y - 1970) + ((y - 1969) \div 4) - ((y - 1901) \div 100)
        + ((y - 1601) \div 400)

RECURSIVE YearUp(_, _)
YearUp(y, day) == IF DayFromYear(y + 1) <= day THEN YearUp(y + 1, day) ELSE y

\* YearFromTime: the largest y with DayFromYear(y) <= day
YearFromDay(day) == YearUp(1970 + (day \div 366), day)

\* first day within the year of month m0 (0 = January)
MonthStart(m0, leap) ==
    <<0, 31, 59, 90, 120, 151, 181, 212, 243, 273, 304, 334>>[m0 + 1]
        + (IF leap /\ m0 >= 2 THEN 1 ELSE 0)

\* MonthFromTime (0 = January)
MonthFromDay(day) ==
    LET y == YearFromDay(day)
        n == day - DayFromYear(y)
    IN  CHOOSE m0 \in 0..11 :
            /\ MonthStart(m0, IsLeapYear(y)) <= n
            /\ (m0 = 11 \/ n < MonthStart(m0 + 1, IsLeapYear(y)))

\* DateFromTime (1-based day of the month)
DateFromDay(day) ==
    LET y == YearFromDay(day)
    IN  day - DayFromYear(y) - MonthStart(MonthFromDay(day), IsLeapYear(y)) + 1

\* MakeDay(year, month, date) for a month in 0..11
MakeDay(y, m0, d) == DayFromYear(y) + MonthStart(m0, IsLeapYear(y)) + d - 1

\* new Date("YYYY-MM-DD"): a date-only string is midnight UTC of that day,
\* which on the local clock is tz hours away from the local midnight
NewDate(dateStr) == MakeDay(dateStr[1], dateStr[2] - 1, dateStr[3]) * 24 + tz

\* date.setHours(0, 0, 0, 0): back to the local midnight of the local day
SetHoursZero(t) == t - (t % 24)

\* the local day number of a Date
LocalDay(t) == t \div 24

\* date.setDate(date.getDate() + n): n local calendar days later, same time
AddDays(t, n) == t + 24 * n

\* date.getDay(): 0 = Sunday .. 6 = Saturday (1970-01-01 was a Thursday)
GetDay(t) == (LocalDay(t) + 4) % 7

GetFullYear(t) == YearFromDay(LocalDay(t))
GetMonth(t) == MonthFromDay(LocalDay(t))
GetDate(t) == DateFromDay(LocalDay(t))

-----------------------------------------------------------------------------
(* Utility functions of the application.                                   *)

RECURSIVE DatesLoop(_, _, _)
DatesLoop(current, end, acc) ==
    IF current <= end
    THEN DatesLoop(AddDays(current, 1), end, Append(acc, current))
    ELSE acc

generateDates(startDate, endDate) ==
    LET start == SetHoursZero(NewDate(startDate))
        end == SetHoursZero(NewDate(endDate))
    IN  DatesLoop(start, end, <<>>)

isSaturday(date) == GetDay(date) = 6

isFriSatSun(date) == GetDay(date) \in {5, 6, 0}

\* `${year}-${month}-${day}` with two-digit month and day
formatDate(date) == <<GetFullYear(date), GetMonth(date) + 1, GetDate(date)>>


-----------------------------------------------------------------------------
(* The roster.                                                             *)

Range(seq) == {seq[n] : n \in DOMAIN seq}

RiderIds == {r.id : r \in Range(riders)}

\* mutant of Available: the availability filter is left out
AvailableAll(dateStr) == RiderIds

\* riders.filter(r => !r.blockedDates.includes(dateStr)), as the set of ids
Available(dateStr) ==
    {r.id : r \in {q \in Range(riders) : dateStr \notin q.blockedDates}}

\* the same filter in roster order, as manualAssign maps it to ids
AvailableIds(dateStr) ==
    LET NotBlocked(r) == dateStr \notin r.blockedDates
        kept == SelectSeq(riders, NotBlocked)
    IN  [n \in DOMAIN kept |-> kept[n].id]

-----------------------------------------------------------------------------
(* generateSchedule: the scheduler.                                        *)

\* riders.reduce(... acc[r.id] = { total: 0, saturdays: 0 } ...)
ZeroStats == [id \in RiderIds |-> [total |-> 0, saturdays |-> 0]]

\* dates.filter(d => isSaturday(d))
AnchorDays(ds) == SelectSeq(ds, isSaturday)

\* dates.filter(d => !isSaturday(d))
FillDays(ds) == LET NotSaturday(d) == ~isSaturday(d) IN SelectSeq(ds, NotSaturday)

\* while (check.getDay() !== 0) { check.setDate(check.getDate() - 1); }
RECURSIVE BackToSunday(_)
BackToSunday(check) ==
    IF GetDay(check) # 0 THEN BackToSunday(AddDays(check, 0 - 1)) ELSE check

workedLastWeekend(currentDate, candidateId, sched) ==
    LET check == BackToSunday(currentDate)
        lastSun == check
        lastSat == AddDays(check, 0 - 1)
        lastFri == AddDays(check, 0 - 2)
    IN  \E d \in {lastFri, lastSat, lastSun} :
            /\ ~(d >= currentDate)
            /\ Lookup(sched, formatDate(d)) = candidateId

\* Pass 1 without step 2
SoftSaturdayOff(candidates, prevSatWorker) == candidates

\* Pass 1, step 2: drop the previous Saturday's worker unless nobody is left
SoftSaturday(candidates, prevSatWorker) ==
    LET softCandidates == {id \in candidates : id # prevSatWorker}
    IN  IF softCandidates # {} THEN softCandidates ELSE candidates

\* mutant of AnchorFirst: the shuffled list is not sorted
AnchorAny(candidates, st) == candidates

\* Pass 1, step 3: the ids that shuffle-then-sort can put first
\* (ascending saturdays, then ascending total; the shuffle orders the ties)
AnchorFirst(candidates, st) ==
    {a \in candidates : \A b \in candidates :
        \/ st[a].saturdays < st[b].saturdays
        \/ /\ st[a].saturdays = st[b].saturdays
           /\ st[a].total <= st[b].total}

\* mutant of NonConsecutive: yesterday's worker is never excluded
NonConsecutiveTomorrowOnly(candidates, yesterdayWorker, tomorrowWorker) ==
    {id \in candidates : id # tomorrowWorker}

\* NonConsecutive with a relaxation that lets everybody back in
NonConsecutiveRelaxAll(candidates, yesterdayWorker, tomorrowWorker) ==
    LET nonConsecutiveCandidates ==
            {id \in candidates : id # yesterdayWorker /\ id # tomorrowWorker}
    IN  IF nonConsecutiveCandidates # {}
        THEN nonConsecutiveCandidates
        ELSE candidates

\* Pass 2, step 2: drop yesterday's and tomorrow's worker; when nobody is
\* left, drop tomorrow's worker only
NonConsecutive(candidates, yesterdayWorker, tomorrowWorker) ==
    LET nonConsecutiveCandidates ==
            {id \in candidates : id # yesterdayWorker /\ id # tomorrowWorker}
    IN  IF nonConsecutiveCandidates # {}
        THEN nonConsecutiveCandidates
        ELSE {id \in candidates : id # tomorrowWorker}

\* FreshWeekend without the fallback to the riders it was given
FreshWeekendHard(candidates, date, sched) ==
    IF isFriSatSun(date)
    THEN {id \in candidates : ~workedLastWeekend(date, id, sched)}
    ELSE candidates

\* Pass 2, step 3: on Fri/Sat/Sun prefer those who did not work last weekend
FreshWeekend(candidates, date, sched) ==
    IF isFriSatSun(date)
    THEN LET freshWeekendCandidates ==
                 {id \in candidates : ~workedLastWeekend(date, id, sched)}
         IN  IF freshWeekendCandidates # {}
             THEN freshWeekendCandidates
             ELSE candidates
    ELSE candidates

\* Pass 2, step 4 without the sort
FillAny(candidates, st) == candidates

\* Pass 2, step 4: the ids that shuffle-then-sort can put first
FillFirst(candidates, st) ==
    {a \in candidates : \A b \in candidates : st[a].total <= st[b].total}

\* the candidates of a Saturday after the filters of Pass 1
AnchorCandidates(date, sched) ==
    LET prevSat == AddDays(date, 0 - 7)
        prevSatWorker == Lookup(sched, formatDate(prevSat))
    IN  SoftSaturday(Available(formatDate(date)), prevSatWorker)

\* the candidates of another day after the filters of Pass 2
FillCandidates(date, sched) ==
    LET yesterdayWorker == Lookup(sched, formatDate(AddDays(date, 0 - 1)))
        tomorrowWorker == Lookup(sched, formatDate(AddDays(date, 1)))
    IN  FreshWeekend(
            NonConsecutive(Available(formatDate(date)),
                           yesterdayWorker, tomorrowWorker),
            date, sched)

\* mutant of Unassign: the empty pool returns without recording the day
UnassignSkip(sched, dateStr) == sched

\* newSchedule[dateStr] = null
Unassign(sched, dateStr) == Put(sched, dateStr, Null)

\* stats[chosen.id].total++ and, on a Saturday, stats[chosen.id].saturdays++
Count(st, id, anchor) ==
    [st EXCEPT ![id] = [total |-> @.total + 1,
                        saturdays |-> @.saturdays + (IF anchor THEN 1 ELSE 0)]]

\* GenStart with the first loop working on the published schedule
GenStartKeeping ==
    /\ pc = "idle"
    /\ pc' = "pass1"
    /\ dates' = generateDates(config.startDate, config.endDate)
    /\ newSchedule' = schedule
    /\ stats' = ZeroStats
    /\ i' = 1
    /\ prior' = [schedule |-> schedule, view |-> view]
    /\ UNCHANGED <<tz, appVars, clickVars, pureVars>>

\* generateSchedule up to the first loop: dates, newSchedule, stats
GenStart ==
    /\ pc = "idle"
    /\ pc' = "pass1"
    /\ dates' = generateDates(config.startDate, config.endDate)
    /\ newSchedule' = EmptyObject
    /\ stats' = ZeroStats
    /\ i' = 1
    /\ prior' = [schedule |-> schedule, view |-> view]
    /\ UNCHANGED <<tz, appVars, clickVars, pureVars>>

\* one iteration of the Pass 1 forEach
Pass1Step ==
    /\ pc = "pass1"
    /\ i <= Len(AnchorDays(dates))
    /\ LET date == AnchorDays(dates)[i]
           dateStr == formatDate(date)
           candidates == AnchorCandidates(date, newSchedule)
       IN  IF candidates = {}
           THEN /\ newSchedule' = Unassign(newSchedule, dateStr)
                /\ stats' = stats
           ELSE \E chosen \in AnchorFirst(candidates, stats) :
                    /\ newSchedule' = Put(newSchedule, dateStr, chosen)
                    /\ stats' = Count(stats, chosen, TRUE)
    /\ i' = i + 1
    /\ UNCHANGED <<tz, appVars, pc, dates, prior, clickVars, pureVars>>

\* the Pass 1 forEach is exhausted: on to Pass 2
Pass1Done ==
    /\ pc = "pass1"
    /\ i > Len(AnchorDays(dates))
    /\ pc' = "pass2"
    /\ i' = 1
    /\ UNCHANGED <<tz, appVars, dates, newSchedule, stats, prior, clickVars, pureVars>>

\* one iteration of the Pass 2 forEach
Pass2Step ==
    /\ pc = "pass2"
    /\ i <= Len(FillDays(dates))
    /\ LET date == FillDays(dates)[i]
           dateStr == formatDate(date)
           candidates == FillCandidates(date, newSchedule)
       IN  IF candidates = {}
           THEN /\ newSchedule' = Unassign(newSchedule, dateStr)
                /\ stats' = stats
           ELSE \E chosen \in FillFirst(candidates, stats) :
                    /\ newSchedule' = Put(newSchedule, dateStr, chosen)
                    /\ stats' = Count(stats, chosen, FALSE)
    /\ i' = i + 1
    /\ UNCHANGED <<tz, appVars, pc, dates, prior, clickVars, pureVars>>

\* both passes have run
GenComplete == pc = "pass2" /\ i > Len(FillDays(dates))

\* setSchedule(newSchedule); setView('calendar')
GenFinish ==
    /\ GenComplete
    /\ schedule' = newSchedule
    /\ view' = "calendar"
    /\ pc' = "idle"
    /\ dates' = <<>>
    /\ newSchedule' = EmptyObject
    /\ stats' = EmptyObject
    /\ i' = 0
    /\ clickDay' = NoDay
    /\ clicks' = 0
    /\ orig' = Undefined
    /\ before' = newSchedule
    /\ prior' = [schedule |-> EmptyObject, view |-> "setup"]
    /\ UNCHANGED <<tz, riders, config, pureVars>>

-----------------------------------------------------------------------------
(* manualAssign: the manual override cycler.                               *)

\* array.indexOf(x), 0-based, -1 when absent
IndexOf(seq, x) ==
    IF \E n \in DOMAIN seq : seq[n] = x
    THEN (CHOOSE n \in DOMAIN seq : seq[n] = x /\ \A m \in 1..(n - 1) : seq[m] # x) - 1
    ELSE 0 - 1

\* [...availableRiders.map(r => r.id), null]
CycleList(dateStr) == Append(AvailableIds(dateStr), Null)

\* mutant of NextId: the next index is clamped instead of wrapped
NextIdClamped(sched, dateStr) ==
    LET currentId == Lookup(sched, dateStr)
        cycleList == CycleList(dateStr)
        currentIndex == IndexOf(cycleList, currentId)
        nextIndex == IF currentIndex + 1 >= Len(cycleList)
                     THEN Len(cycleList) - 1
                     ELSE currentIndex + 1
    IN  cycleList[nextIndex + 1]

\* mutant of NextId: a current id that is not found restarts at the sentinel
NextIdStaleToNull(sched, dateStr) ==
    LET currentId == Lookup(sched, dateStr)
        cycleList == CycleList(dateStr)
        currentIndex == IndexOf(cycleList, currentId)
        nextIndex == IF currentIndex < 0
                     THEN Len(cycleList) - 1
                     ELSE (currentIndex + 1) % Len(cycleList)
    IN  cycleList[nextIndex + 1]

\* the id manualAssign writes for dateStr
NextId(sched, dateStr) ==
    LET currentId == Lookup(sched, dateStr)
        cycleList == CycleList(dateStr)
        currentIndex == IndexOf(cycleList, currentId)
        nextIndex == (currentIndex + 1) % Len(cycleList)
    IN  cycleList[nextIndex + 1]

manualAssign(dateStr) ==
    /\ pc = "idle"
    /\ schedule' = Put(schedule, dateStr, NextId(schedule, dateStr))
    /\ before' = schedule
    /\ IF dateStr = clickDay /\ clicks < Len(CycleList(dateStr))
       THEN /\ clicks' = clicks + 1
            /\ UNCHANGED <<clickDay, orig>>
       ELSE /\ clickDay' = dateStr
            /\ clicks' = 1
            /\ orig' = Lookup(schedule, dateStr)
    /\ UNCHANGED <<tz, riders, config, view, genVars, pureVars>>

-----------------------------------------------------------------------------
(* renderCalendarView: the fairness numbers of the calendar view.          *)

\* the stats object renderCalendarView computes from a schedule: every entry
\* of a rider of the roster counts, and counts as a Saturday when
\* isSaturday(new Date(dateStr)) says so
renderCalendarViewStats(sched) ==
    [id \in RiderIds |->
        [total |-> Cardinality({k \in DOMAIN sched : sched[k] = id}),
         saturdays |-> Cardinality({k \in DOMAIN sched :
                                        sched[k] = id /\ isSaturday(NewDate(k))})]]

-----------------------------------------------------------------------------
(* generateICalContent: the serializer.                                    *)

\* "YYYYMMDD" read as a number
Digits(y, m, d) == y * 10000 + m * 100 + d

\* one event's VEVENT block
VEvent(event) ==
    LET startDate == Digits(event.date[1], event.date[2], event.date[3])
        d == AddDays(NewDate(event.date), 1)
        endDate == Digits(GetFullYear(d), GetMonth(d) + 1, GetDate(d))
    IN  [DTSTART |-> startDate,
         DTEND |-> endDate,
         UID |-> <<event.date, event.riderId>>]

generateICalContent(evs) == [n \in DOMAIN evs |-> VEvent(evs[n])]

-----------------------------------------------------------------------------
(* Text.  A string is the sequence of its UTF-16 code units, each written  *)
(* as a one-character string; String.length is Len.                        *)

\* characters outside ASCII that the texts of the model use: two octets each
\* in UTF-8, one code unit each in a JavaScript string
TwoOctetChars == {"å", "ô"}

Octets(c) == IF c \in TwoOctetChars THEN 2 ELSE 1

\* the length of the UTF-8 encoding of a text, summed over its two halves
RECURSIVE OctetLength(_)
OctetLength(text) ==
    IF text = <<>> THEN 0
    ELSE IF Len(text) = 1 THEN Octets(text[1])
    ELSE LET half == Len(text) \div 2
         IN  OctetLength(SubSeq(text, 1, half))
             + OctetLength(SubSeq(text, half + 1, Len(text)))

\* text.replace(/c/g, repl): every c gives way to repl (the two halves of a
\* text are handled on their own and put together again)
RECURSIVE ReplaceAll(_, _, _)
ReplaceAll(text, c, repl) ==
    IF text = <<>> THEN <<>>
    ELSE IF Len(text) = 1 THEN (IF text[1] = c THEN repl ELSE text)
    ELSE LET half == Len(text) \div 2
         IN  ReplaceAll(SubSeq(text, 1, half), c, repl)
             \o ReplaceAll(SubSeq(text, half + 1, Len(text)), c, repl)

\* array.join(sep)
RECURSIVE Join(_, _)
Join(lines, sep) ==
    IF lines = <<>> THEN <<>>
    ELSE IF Len(lines) = 1 THEN lines[1]
    ELSE lines[1] \o sep \o Join(Tail(lines), sep)

CRLF == <<"\r", "\n">>

\* String(n) for n >= 0
RECURSIVE Decimal(_)
Decimal(n) ==
    LET digit == <<"0", "1", "2", "3", "4", "5", "6", "7", "8", "9">>[(n % 10) + 1]
    IN  IF n < 10 THEN <<digit>> ELSE Decimal(n \div 10) \o <<digit>>

\* String(n).padStart(2, '0')
PadStart2(n) == IF n < 10 THEN <<"0">> \o Decimal(n) ELSE Decimal(n)

\* the text of a date string "YYYY-MM-DD"
DateText(dateStr) ==
    Decimal(dateStr[1]) \o <<"-">> \o PadStart2(dateStr[2]) \o <<"-">>
    \o PadStart2(dateStr[3])

\* escapeText with the backslash pass run last
escapeTextBackslashLast(text) ==
    IF text = <<>> THEN <<>>
    ELSE ReplaceAll(ReplaceAll(ReplaceAll(ReplaceAll(text,
             ";", <<"\\", ";">>),
             ",", <<"\\", ",">>),
             "\n", <<"\\", "n">>),
             "\\", <<"\\", "\\">>)

escapeText(text) ==
    IF text = <<>> THEN <<>>
    ELSE ReplaceAll(ReplaceAll(ReplaceAll(ReplaceAll(text,
             "\\", <<"\\", "\\">>),
             ";", <<"\\", ";">>),
             ",", <<"\\", ",">>),
             "\n", <<"\\", "n">>)

\* the widths foldLine cuts at
FoldFirst == 75
FoldNext == 74

Min(a, b) == IF a <= b THEN a ELSE b

\* the while loop of foldLine
RECURSIVE FoldRemaining(_)
FoldRemaining(remaining) ==
    IF Len(remaining) > 0
    THEN CRLF \o <<" ">> \o SubSeq(remaining, 1, Min(FoldNext, Len(remaining)))
         \o FoldRemaining(SubSeq(remaining, FoldNext + 1, Len(remaining)))
    ELSE <<>>

\* foldLine with a second segment that starts one character late
foldLineSkipping(line) ==
    IF Len(line) <= FoldFirst THEN line
    ELSE SubSeq(line, 1, FoldFirst)
         \o FoldRemaining(SubSeq(line, FoldFirst + 2, Len(line)))

foldLine(line) ==
    IF Len(line) <= FoldFirst THEN line
    ELSE SubSeq(line, 1, FoldFirst)
         \o FoldRemaining(SubSeq(line, FoldFirst + 1, Len(line)))

\* new Date().toISOString() without '-', ':' and the milliseconds, at one
\* instant of the clock
Timestamp ==
    <<"2", "0", "2", "4", "0", "3", "0", "1", "T", "1", "2", "0", "0", "0",
      "0", "Z">>

HeaderLines ==
    <<<<"B", "E", "G", "I", "N", ":", "V", "C", "A", "L", "E", "N", "D", "A",
        "R">>,
      <<"V", "E", "R", "S", "I", "O", "N", ":", "2", ".", "0">>,
      <<"P", "R", "O", "D", "I", "D", ":", "-", "/", "/", "S", "t", "a", "b",
        "l", "e", " ", "S", "c", "h", "e", "d", "u", "l", "e", "r", "/",
        "/", "E", "N">>,
      <<"C", "A", "L", "S", "C", "A", "L", "E", ":", "G", "R", "E", "G", "O",
        "R", "I", "A", "N">>,
      <<"M", "E", "T", "H", "O", "D", ":", "P", "U", "B", "L", "I", "S", "H">>>>

BeginEvent ==
    <<"B", "E", "G", "I", "N", ":", "V", "E", "V", "E", "N", "T">>
EndEvent ==
    <<"E", "N", "D", ":", "V", "E", "V", "E", "N", "T">>
EndCalendar ==
    <<"E", "N", "D", ":", "V", "C", "A", "L", "E", "N", "D", "A", "R">>
DtStartName ==
    <<"D", "T", "S", "T", "A", "R", "T", ";", "V", "A", "L", "U", "E", "=",
      "D", "A", "T", "E", ":">>
DtEndName ==
    <<"D", "T", "E", "N", "D", ";", "V", "A", "L", "U", "E", "=", "D", "A",
      "T", "E", ":">>
DtStampName ==
    <<"D", "T", "S", "T", "A", "M", "P", ":">>
UidName == <<"U", "I", "D", ":">>
SummaryName ==
    <<"S", "U", "M", "M", "A", "R", "Y", ":">>
DescriptionName ==
    <<"D", "E", "S", "C", "R", "I", "P", "T", "I", "O", "N", ":">>
StatusLine ==
    <<"S", "T", "A", "T", "U", "S", ":", "C", "O", "N", "F", "I", "R", "M",
      "E", "D">>
UidDomain ==
    <<"@", "s", "t", "a", "b", "l", "e", "s", "c", "h", "e", "d", "u", "l",
      "e", "r">>

\* a uid that leaves the rider out
UidOfDate(event) == DateText(event.date) \o UidDomain

Uid(event) ==
    DateText(event.date) \o <<"-">> \o Decimal(event.riderId) \o UidDomain

\* the eventLines array of one event
EventLines(event) ==
    LET startDate == ReplaceAll(DateText(event.date), "-", <<>>)
        d == AddDays(NewDate(event.date), 1)
        endDate == Decimal(GetFullYear(d)) \o PadStart2(GetMonth(d) + 1)
                   \o PadStart2(GetDate(d))
        description == escapeText(event.description)
    IN  <<BeginEvent,
          DtStartName \o startDate,
          DtEndName \o endDate,
          DtStampName \o Timestamp,
          UidName \o Uid(event),
          SummaryName \o escapeText(event.eventName),
          DescriptionName \o description,
          StatusLine,
          EndEvent>>

\* eventLines.map(foldLine)
FoldLines(lines) == [n \in DOMAIN lines |-> foldLine(lines[n])]

\* the loop ending after the first event
AppendFirstEvent(text, evs) ==
    IF evs = <<>> THEN text
    ELSE text \o CRLF \o Join(FoldLines(EventLines(Head(evs))), CRLF)

\* the events.forEach loop over evs, appending to content
RECURSIVE AppendEvents(_, _)
AppendEvents(text, evs) ==
    IF evs = <<>> THEN text
    ELSE AppendEvents(text \o CRLF \o Join(FoldLines(EventLines(Head(evs))), CRLF),
                      Tail(evs))

\* the string generateICalContent returns
generateICalText(evs) ==
    AppendEvents(Join(HeaderLines, CRLF), evs) \o CRLF \o EndCalendar

-----------------------------------------------------------------------------
(* Inputs.                                                                 *)

\* the date string of a day number
DateStrOf(day) == <<YearFromDay(day), MonthFromDay(day) + 1, DateFromDay(day)>>

\* the date string k days after dateStr
Shift(dateStr, k) ==
    DateStrOf(MakeDay(dateStr[1], dateStr[2] - 1, dateStr[3]) + k)

RECURSIVE SubsetsUpTo(_, _)
SubsetsUpTo(S, k) ==
    IF k = 0 THEN {{}}
    ELSE LET smaller == SubsetsUpTo(S, k - 1)
         IN  smaller \cup {T \cup {x} : T \in smaller, x \in S}

\* the roster <<1, .., n>> with the (id, day) pairs of B blocked
Roster(n, B) ==
    [id \in 1..n |-> [id |-> id, blockedDates |-> {p[2] : p \in {q \in B : q[1] = id}}]]

\* the day strings the availability dialog offers for a range
Offered(startDate, endDate) ==
    {formatDate(d) : d \in Range(generateDates(startDate, endDate))}

NoCall == [called |-> FALSE, result |-> <<>>]

InitRest ==
    /\ schedule = EmptyObject
    /\ view = "setup"
    /\ pc = "idle"
    /\ dates = <<>>
    /\ newSchedule = EmptyObject
    /\ stats = EmptyObject
    /\ i = 0
    /\ prior = [schedule |-> EmptyObject, view |-> "setup"]
    /\ clickDay = NoDay
    /\ clicks = 0
    /\ orig = Undefined
    /\ before = EmptyObject
    /\ expanded = NoCall
    /\ events = <<>>
    /\ ical = NoCall
    /\ content = NoCall
    /\ download = NoCall

-----------------------------------------------------------------------------
(* One run of generateSchedule from the setup view.                        *)

\* Thursday 2024-02-29: the window holds a leap day, a month boundary and
\* two weekends
GenFirstDay == <<2024, 2, 29>>
\* a range starts on that Thursday or on Saturday 2024-03-02
GenStartDays == {GenFirstDay, <<2024, 3, 2>>}

InitGen ==
    /\ tz \in TzOffsets
    /\ \E a \in GenStartDays, b \in 0..GenDays :
           config = [startDate |-> a, endDate |-> Shift(GenFirstDay, b)]
    /\ \E n \in 0..GenRiders :
       \E B \in SubsetsUpTo((1..n) \X Offered(config.startDate, config.endDate),
                            GenBlocked) :
           riders = Roster(n, B)
    /\ InitRest

\* one run: generateSchedule is entered from the setup view only, so that the
\* published schedule it starts from is the initial empty one
NextGen ==
    \/ (view = "setup" /\ GenStart)
    \/ Pass1Step
    \/ Pass1Done
    \/ Pass2Step
    \/ GenFinish

SpecGen == InitGen /\ [][NextGen]_vars

-----------------------------------------------------------------------------
(* One run of generateSchedule over whole weeks, Saturday to Saturday.     *)

InitFair ==
    /\ tz \in TzOffsets
    /\ \E w \in 0..FairWeeks :
           config = [startDate |-> <<2024, 3, 2>>,
                     endDate |-> Shift(<<2024, 3, 2>>, 7 * w)]
    /\ \E n \in 1..3 : riders = Roster(n, {})
    /\ InitRest

SpecFair == InitFair /\ [][NextGen]_vars

-----------------------------------------------------------------------------
(* One run of generateSchedule over two or three weekends.                 *)

\* Friday 2024-03-01 and Sunday 2024-03-03
WkStartDays == {<<2024, 3, 1>>, <<2024, 3, 3>>}

\* the days from Saturday 2024-03-09 on, and Saturday 2024-03-16
WkEndDays == {Shift(<<2024, 3, 9>>, b) : b \in 0..WkDays} \cup {<<2024, 3, 16>>}

\* the Saturdays the availability dialog offers for a range
OfferedSaturdays(startDate, endDate) ==
    {formatDate(d) : d \in {e \in Range(generateDates(startDate, endDate)) : isSaturday(e)}}

InitWeekends ==
    /\ tz \in TzOffsets
    /\ \E a \in WkStartDays, b \in WkEndDays :
           config = [startDate |-> a, endDate |-> b]
    /\ \E n \in 1..3 :
       \E B \in SubsetsUpTo((1..n) \X OfferedSaturdays(config.startDate, config.endDate),
                            WkBlocked) :
           riders = Roster(n, B)
    /\ InitRest

SpecWeekends == InitWeekends /\ [][NextGen]_vars

-----------------------------------------------------------------------------
(* manualAssign as a function of any schedule, day and roster.             *)

\* Friday 2024-03-01 and Saturday 2024-03-02
ManWindow == {<<2024, 3, 1>>, <<2024, 3, 2>>}

\* the ascending sequence of the elements of a set of ids
RECURSIVE Ascending(_)
Ascending(S) ==
    IF S = {} THEN <<>>
    ELSE LET top == CHOOSE x \in S : \A y \in S : y <= x
         IN  Append(Ascending(S \ {top}), top)

InitManual ==
    /\ tz = TzEast
    /\ config = [startDate |-> <<2024, 3, 1>>, endDate |-> <<2024, 3, 2>>]
    /\ \E ids \in SUBSET (1..ManRiders) :
       \E blocked \in [ids -> SUBSET ManWindow] :
           riders = [n \in 1..Cardinality(ids) |->
                        [id |-> Ascending(ids)[n],
                         blockedDates |-> blocked[Ascending(ids)[n]]]]
    /\ \E keys \in SUBSET ManWindow :
           schedule \in [keys -> (1..ManRiders) \cup {Null}]
    /\ view = "calendar"
    /\ pc = "idle"
    /\ dates = <<>>
    /\ newSchedule = EmptyObject
    /\ stats = EmptyObject
    /\ i = 0
    /\ prior = [schedule |-> EmptyObject, view |-> "setup"]
    /\ clickDay = NoDay
    /\ clicks = 0
    /\ orig = Undefined
    /\ before = schedule
    /\ expanded = NoCall
    /\ events = <<>>
    /\ ical = NoCall
    /\ content = NoCall
    /\ download = NoCall

NextManual == \E d \in ManWindow : manualAssign(d)

SpecManual == InitManual /\ [][NextManual]_vars

-----------------------------------------------------------------------------
(* generateDates and generateICalContent as functions of their inputs.     *)

\* start days next to a year end, a leap day, a non-leap February end and
\* the day of the serializer's tests
DateAnchors == {<<2023, 12, 30>>, <<2024, 2, 27>>, <<2023, 2, 27>>, <<2023, 10, 1>>}

DateInputs == {Shift(a, k) : a \in DateAnchors, k \in 0..MaxSpan}

EventLists ==
    UNION {[1..n -> [date : DateInputs, riderId : {1}]] : n \in 0..MaxEvents}

InitDates ==
    /\ tz \in TzOffsets
    /\ \E a \in DateAnchors, k \in (0 - 2)..MaxSpan :
           config = [startDate |-> a, endDate |-> Shift(a, k)]
    /\ riders = <<>>
    /\ schedule = EmptyObject
    /\ view = "setup"
    /\ pc = "idle"
    /\ dates = <<>>
    /\ newSchedule = EmptyObject
    /\ stats = EmptyObject
    /\ i = 0
    /\ prior = [schedule |-> EmptyObject, view |-> "setup"]
    /\ clickDay = NoDay
    /\ clicks = 0
    /\ orig = Undefined
    /\ before = EmptyObject
    /\ expanded = NoCall
    /\ events \in EventLists
    /\ ical = NoCall
    /\ content = NoCall
    /\ download = NoCall

\* a stand-alone call generateDates(config.startDate, config.endDate)
ExpandRange ==
    /\ pc = "idle"
    /\ expanded' = [called |-> TRUE,
                    result |-> generateDates(config.startDate, config.endDate)]
    /\ UNCHANGED <<tz, appVars, genVars, clickVars, events, ical, content, download>>

\* a call generateICalContent(events)
Serialize ==
    /\ pc = "idle"
    /\ ical' = [called |-> TRUE, result |-> generateICalContent(events)]
    /\ UNCHANGED <<tz, appVars, genVars, clickVars, expanded, events, content,
                   download>>

NextDates == ExpandRange \/ Serialize

SpecDates == InitDates /\ [][NextDates]_vars

-----------------------------------------------------------------------------
(* generateICalContent as a function from event lists to text.             *)

\* characters of a title or description: an ordinary letter, the letter the
\* newline escape ends in, and the characters escapeText and the line
\* breaks are made of
ShortChars == {"a", "n", "\\", ";", ",", "\n", "\r"}

ShortTexts == UNION {[1..n -> ShortChars] : n \in 0..MaxShort}

Repeat(c, n) == [k \in 1..n |-> c]

\* "1234567890123.." of length n
Counting(n) == [k \in 1..n |-> Decimal(k % 10)[1]]

LongTexts ==
    {Repeat(c, n) : c \in {"A", "å", ";"}, n \in 0..MaxLong}
    \cup {Counting(n) : n \in 0..MaxLong}

\* "Stallvakt"
Title == <<"S", "t", "a", "l", "l", "v", "a", "k", "t">>

TextDays == {<<2023, 10, 1>>, <<2023, 10, 8>>}
TextRiders == {1, 12}

TextEvent(dateStr, riderId, eventName, description) ==
    [date |-> dateStr, riderId |-> riderId,
     eventName |-> eventName, description |-> description]

TextEventLists ==
    \* lists of events that share one short text
    {[k \in DOMAIN key |-> TextEvent(key[k][1], key[k][2], Title, <<"a", ",">>)] :
        key \in UNION {[1..n -> TextDays \X TextRiders] : n \in 0..MaxDocEvents}}
    \* one event, each short description, with and without a title
    \cup {<<TextEvent(<<2023, 10, 1>>, 1, name, text)>> :
             name \in {<<>>, Title}, text \in ShortTexts}
    \* one event, each short title
    \cup {<<TextEvent(<<2023, 10, 1>>, 1, text, <<>>)>> : text \in ShortTexts}
    \* one event, each long description
    \cup {<<TextEvent(<<2023, 10, 1>>, 1, Title, text)>> : text \in LongTexts}

InitText ==
    /\ tz \in TzOffsets
    /\ config = [startDate |-> <<2023, 10, 1>>, endDate |-> <<2023, 10, 8>>]
    /\ riders = <<>>
    /\ schedule = EmptyObject
    /\ view = "setup"
    /\ pc = "idle"
    /\ dates = <<>>
    /\ newSchedule = EmptyObject
    /\ stats = EmptyObject
    /\ i = 0
    /\ prior = [schedule |-> EmptyObject, view |-> "setup"]
    /\ clickDay = NoDay
    /\ clicks = 0
    /\ orig = Undefined
    /\ before = EmptyObject
    /\ expanded = NoCall
    /\ events \in TextEventLists
    /\ ical = NoCall
    /\ content = NoCall
    /\ download = NoCall

\* a call generateICalContent(events), its return value kept as text
SerializeText ==
    /\ pc = "idle"
    /\ content' = [called |-> TRUE, result |-> generateICalText(events)]
    /\ UNCHANGED <<tz, appVars, genVars, clickVars, expanded, events, ical,
                   download>>

NextText == SerializeText

SpecText == InitText /\ [][NextText]_vars

-----------------------------------------------------------------------------
(* downloadICal: the calendar file of one rider.                           *)

\* dateStr.replace(/-/g, '')
formatICalDate(dateStr) == ReplaceAll(DateText(dateStr), "-", <<>>)

\* riders.find(r => r.id === id): the riders with that id in roster order;
\* the first is the result, none is undefined
getRiderById(id) == LET HasId(r) == r.id = id IN SelectSeq(riders, HasId)

\* a template literal of several lines: each line ends with a line feed
RECURSIVE Template(_)
Template(lines) ==
    IF lines = <<>> THEN <<>>
    ELSE Head(lines) \o <<"\n">> \o Template(Tail(lines))

\* the orders Object.entries can list the keys of an object in
Orders(obj) ==
    {o \in [1..Cardinality(DOMAIN obj) -> DOMAIN obj] :
        \A m, n \in DOMAIN o : m # n => o[m] # o[n]}

\* the forEach body without its condition
EntryTextAlways(dateStr, scheduledRiderId, riderId, eventName, eventDescription) ==
    LET dateFormatted == formatICalDate(dateStr)
        safeDescription == ReplaceAll(eventDescription, "\n", <<"\\", "n">>)
    IN  Template(<<BeginEvent,
                   DtStartName \o dateFormatted,
                   DtEndName \o dateFormatted,
                   SummaryName \o eventName,
                   DescriptionName \o safeDescription,
                   StatusLine,
                   EndEvent>>)

\* what one schedule entry adds to icalContent
EntryText(dateStr, scheduledRiderId, riderId, eventName, eventDescription) ==
    IF scheduledRiderId = riderId
    THEN LET dateFormatted == formatICalDate(dateStr)
             safeDescription == ReplaceAll(eventDescription, "\n", <<"\\", "n">>)
         IN  Template(<<BeginEvent,
                        DtStartName \o dateFormatted,
                        DtEndName \o dateFormatted,
                        SummaryName \o eventName,
                        DescriptionName \o safeDescription,
                        StatusLine,
                        EndEvent>>)
    ELSE <<>>

\* Object.entries(schedule).forEach(...) over the first n entries
RECURSIVE AppendEntries(_, _, _, _, _, _)
AppendEntries(text, order, n, riderId, eventName, eventDescription) ==
    IF n = 0 THEN text
    ELSE AppendEntries(text, order, n - 1, riderId, eventName, eventDescription)
         \o EntryText(order[n], schedule[order[n]], riderId, eventName,
                      eventDescription)

\* nothing was saved: the call returned before it built anything
NoDocument(riderId) ==
    [called |-> TRUE, saved |-> FALSE, riderId |-> riderId,
     schedule |-> schedule, result |-> <<>>]

\* the event descriptions of the model: none, and two lines of which the
\* second reads like the start of an event
DownloadDescriptions ==
    {<<>>, <<"a", "\n">> \o BeginEvent}

\* one call downloadICal(riderId); download keeps the argument and the
\* schedule the call read next to the text it saved
downloadICal(riderId) ==
    /\ pc = "idle"
    /\ IF getRiderById(riderId) = <<>>
       THEN download' = NoDocument(riderId)
       ELSE \E order \in Orders(schedule),
               eventDescription \in DownloadDescriptions :
                download' =
                    [called |-> TRUE, saved |-> TRUE, riderId |-> riderId,
                     schedule |-> schedule,
                     result |->
                         AppendEntries(Template(HeaderLines), order, Len(order),
                                       riderId, Title, eventDescription)
                         \o EndCalendar]
    /\ UNCHANGED <<tz, appVars, genVars, clickVars, expanded, events, ical, content>>

\* downloadICal called with any id, in any state of the calendar view
NextDownload == \E riderId \in 1..ManRiders : downloadICal(riderId)

SpecDownload == InitManual /\ [][NextDownload]_vars

-----------------------------------------------------------------------------
(* The application: the handlers of the setup view and the calendar view.  *)

\* Friday 2024-03-01 and Saturday 2024-03-02
AppStartDays == {<<2024, 3, 1>>, <<2024, 3, 2>>}

\* Saturday 2024-03-02 and Sunday 2024-03-03
AppEndDays == {<<2024, 3, 2>>, <<2024, 3, 3>>}

\* the ids that occur somewhere in the state
IdsInUse ==
    RiderIds \cup Range(schedule) \cup Range(before) \cup Range(prior.schedule)

\* the rider ids of the application: the first two of the six riders the
\* program starts with, and the ids addRider hands out once they are free
AppIds == {1, 2}

\* Date.now() in addRider: an id that occurs nowhere in the state
FreshIds == AppIds \ IdsInUse

\* onClick={() => setView('setup')} of the calendar view
BackToSetup ==
    /\ pc = "idle"
    /\ view = "calendar"
    /\ view' = "setup"
    /\ clickDay' = NoDay
    /\ clicks' = 0
    /\ orig' = Undefined
    /\ before' = schedule
    /\ UNCHANGED <<tz, riders, config, schedule, genVars, pureVars>>

\* the start date input of the setup view
SetStartDate(value) ==
    /\ pc = "idle"
    /\ view = "setup"
    /\ config' = [config EXCEPT !.startDate = value]
    /\ UNCHANGED <<tz, riders, schedule, view, genVars, clickVars, pureVars>>

\* the end date input of the setup view
SetEndDate(value) ==
    /\ pc = "idle"
    /\ view = "setup"
    /\ config' = [config EXCEPT !.endDate = value]
    /\ UNCHANGED <<tz, riders, schedule, view, genVars, clickVars, pureVars>>

addRider ==
    /\ pc = "idle"
    /\ view = "setup"
    /\ FreshIds # {}
    /\ LET id == CHOOSE a \in FreshIds : \A b \in FreshIds : a <= b
       IN  riders' = Append(riders, [id |-> id, blockedDates |-> {}])
    /\ UNCHANGED <<tz, config, schedule, view, genVars, clickVars, pureVars>>

removeRider(id) ==
    /\ pc = "idle"
    /\ view = "setup"
    /\ LET Others(r) == r.id # id
       IN  riders' = SelectSeq(riders, Others)
    /\ UNCHANGED <<tz, config, schedule, view, genVars, clickVars, pureVars>>

\* riders.map(r => r.id === id ? { ...r, blockedDates: value } : r)
updateRider(id, value) ==
    [n \in DOMAIN riders |->
        IF riders[n].id = id THEN [riders[n] EXCEPT !.blockedDates = value]
        ELSE riders[n]]

BlockedPairs ==
    {<<r.id, k>> : r \in Range(riders), k \in UNION {q.blockedDates : q \in Range(riders)}}
    \cap UNION {{<<r.id, k>> : k \in r.blockedDates} : r \in Range(riders)}

\* a click on a day of the availability dialog of rider riderId
toggleBlockedDate(riderId, dateStr) ==
    /\ pc = "idle"
    /\ view = "setup"
    /\ \E n \in DOMAIN riders :
           /\ riders[n].id = riderId
           /\ \A m \in 1..(n - 1) : riders[m].id # riderId
           /\ LET isBlocked == dateStr \in riders[n].blockedDates
                  newBlocked == IF isBlocked
                                THEN riders[n].blockedDates \ {dateStr}
                                ELSE riders[n].blockedDates \cup {dateStr}
              IN  /\ isBlocked \/ Cardinality(BlockedPairs) < AppBlocked
                  /\ riders' = updateRider(riderId, newBlocked)
    /\ UNCHANGED <<tz, config, schedule, view, genVars, clickVars, pureVars>>

\* the setup view before the first run, with a roster of two riders and
\* the range Friday 2024-03-01 .. Saturday 2024-03-02 entered
InitApp ==
    /\ tz \in TzOffsets
    /\ config = [startDate |-> <<2024, 3, 1>>, endDate |-> <<2024, 3, 2>>]
    /\ riders = Roster(Cardinality(AppIds), {})
    /\ InitRest

SetupStep ==
    \/ \E value \in AppStartDays : SetStartDate(value)
    \/ \E value \in AppEndDays : SetEndDate(value)
    \/ addRider
    \/ \E id \in RiderIds : removeRider(id)
    \/ \E id \in RiderIds, dateStr \in Offered(config.startDate, config.endDate) :
           toggleBlockedDate(id, dateStr)

CalendarStep ==
    \/ BackToSetup
    \/ /\ view = "calendar"
       /\ \E dateStr \in Offered(config.startDate, config.endDate) : manualAssign(dateStr)

\* generateSchedule runs to its end once its button is pressed, in either view
NextApp ==
    \/ SetupStep
    \/ CalendarStep
    \/ GenStart
    \/ Pass1Step
    \/ Pass1Done
    \/ Pass2Step
    \/ GenFinish

SpecApp == InitApp /\ [][NextApp]_vars

-----------------------------------------------------------------------------
(* The calendar, written on date strings, for stating the properties.      *)

DaysInMonth(y, m) ==
    IF m = 2 THEN (IF IsLeapYear(y) THEN 29 ELSE 28)
    ELSE IF m \in {4, 6, 9, 11} THEN 30 ELSE 31

\* the calendar day after a date string
NextCalendarDay(s) ==
    IF s[3] < DaysInMonth(s[1], s[2]) THEN <<s[1], s[2], s[3] + 1>>
    ELSE IF s[2] < 12 THEN <<s[1], s[2] + 1, 1>>
    ELSE <<s[1] + 1, 1, 1>>

\* a is a calendar day before b
DateBefore(a, b) ==
    \/ a[1] < b[1]
    \/ a[1] = b[1] /\ a[2] < b[2]
    \/ a[1] = b[1] /\ a[2] = b[2] /\ a[3] < b[3]

\* the number of calendar days from a to b, both included (a not after b)
RECURSIVE InclusiveDays(_, _)
InclusiveDays(a, b) == IF a = b THEN 1 ELSE 1 + InclusiveDays(NextCalendarDay(a), b)

\* the weekday of a date string, 0 = Sunday .. 6 = Saturday
WeekdayOf(k) == (MakeDay(k[1], k[2] - 1, k[3]) + 4) % 7

\* the day strings of the expanded range of the configuration
RangeDays == Offered(config.startDate, config.endDate)

\* the riders not blocked on a day string, straight from the roster
NotBlockedOn(k) == {r.id : r \in {q \in Range(riders) : k \notin q.blockedDates}}

-----------------------------------------------------------------------------
(* Properties.                                                             *)

\* sched has exactly one entry, a rider id or Null, per day of the range
FullSchedule(sched) ==
    /\ DOMAIN sched = RangeDays
    /\ Cardinality(RangeDays) = Len(generateDates(config.startDate, config.endDate))
    /\ \A k \in DOMAIN sched : sched[k] \in RiderIds \cup {Null}

\* C1: after a full run of generateSchedule the schedule (the local one when
\* both passes are done, and the published one) has exactly one entry, a
\* rider id or null, for every day of the expanded range and no other key.
C1_OneEntryPerDay ==
    /\ GenComplete => FullSchedule(newSchedule)
    /\ (pc = "idle" /\ view = "calendar") => FullSchedule(schedule)

C1_Witness ==
    /\ pc = "idle"
    /\ view = "calendar"
    /\ Cardinality(DOMAIN schedule) >= 4
    /\ \E k \in DOMAIN schedule : schedule[k] = Null
    /\ \E k \in DOMAIN schedule : schedule[k] # Null

\* days k-1 and k of sched are held by the same rider
SameAsYesterday(sched, k) ==
    /\ k \in DOMAIN sched
    /\ Shift(k, 0 - 1) \in DOMAIN sched
    /\ sched[k] # Null
    /\ sched[k] = sched[Shift(k, 0 - 1)]

\* C2: in a generated schedule two consecutive days held by riders have
\* different riders, except when the later day is not a Saturday and each
\* rider not blocked on it holds the day before or the day after.
C2_HardAdjacency ==
    GenComplete =>
        \A k \in DOMAIN newSchedule :
            SameAsYesterday(newSchedule, k) =>
                /\ WeekdayOf(k) # 6
                /\ \A id \in NotBlockedOn(k) :
                       \/ id = newSchedule[Shift(k, 0 - 1)]
                       \/ id = Lookup(newSchedule, Shift(k, 1))

C2_Witness ==
    /\ GenComplete
    /\ Len(riders) = 2
    /\ \E k \in DOMAIN newSchedule : SameAsYesterday(newSchedule, k)
    /\ \E k \in DOMAIN newSchedule :
           /\ Shift(k, 0 - 1) \in DOMAIN newSchedule
           /\ newSchedule[k] # Null
           /\ newSchedule[Shift(k, 0 - 1)] # Null
           /\ newSchedule[k] # newSchedule[Shift(k, 0 - 1)]

\* no entry of sched names a rider who blocked that day
NoBlockedAssignment(sched) ==
    \A k \in DOMAIN sched : \A r \in Range(riders) :
        sched[k] = r.id => k \notin r.blockedDates

\* C3: at every step of generateSchedule, in both passes and after every
\* relaxation, and in the schedule it publishes, no day is assigned to a
\* rider whose blockedDates contains that day.
C3_NeverBlocked ==
    /\ NoBlockedAssignment(newSchedule)
    /\ (pc = "idle" /\ view = "calendar") => NoBlockedAssignment(schedule)

C3_Witness ==
    /\ GenComplete
    /\ \E k \in DOMAIN newSchedule :
           /\ SameAsYesterday(newSchedule, k)
           /\ \E r \in Range(riders) : k \in r.blockedDates

\* the Saturdays of sched held by rider id
SaturdaysOf(sched, id) ==
    Cardinality({k \in DOMAIN sched : WeekdayOf(k) = 6 /\ sched[k] = id})

NoSaturdayBlocked ==
    \A r \in Range(riders) : \A k \in r.blockedDates : WeekdayOf(k) # 6

\* C4: when no rider has a Saturday blocked, the largest and the smallest
\* per-rider Saturday count differ by at most 1, in the counters and in the
\* schedule, after every step of the run and in the published schedule,
\* whichever way the ties fall.
C4_AnchorFairness ==
    NoSaturdayBlocked =>
        /\ pc \in {"pass1", "pass2"} =>
               \A a, b \in RiderIds :
                   /\ stats[a].saturdays - stats[b].saturdays <= 1
                   /\ SaturdaysOf(newSchedule, a) - SaturdaysOf(newSchedule, b) <= 1
        /\ (pc = "idle" /\ view = "calendar") =>
               \A a, b \in RiderIds :
                   SaturdaysOf(schedule, a) - SaturdaysOf(schedule, b) <= 1

C4_Witness ==
    /\ GenComplete
    /\ Len(riders) = 3
    /\ \A id \in RiderIds : stats[id].saturdays = 1 /\ SaturdaysOf(newSchedule, id) = 1

\* a run of clicks on clickDay has gone once round its cycle list
CycleDone == clicks >= 1 /\ clicks = Len(CycleList(clickDay))

Successor(ids, cur) ==
    IF \E n \in DOMAIN ids : ids[n] = cur
    THEN LET n == CHOOSE m \in DOMAIN ids : ids[m] = cur
         IN  IF n < Len(ids) THEN ids[n + 1] ELSE Null
    ELSE IF Len(ids) > 0 THEN ids[1] ELSE Null

\* the ids of the riders not blocked on day k, in roster order
RegularIds(k) ==
    LET pos == {n \in DOMAIN riders : k \notin riders[n].blockedDates}
    IN  [m \in 1..Cardinality(pos) |->
            riders[CHOOSE n \in pos : Cardinality({q \in pos : q < n}) = m - 1].id]

\* C6: manualAssign replaces a not-blocked assignee by the next not-blocked
\* rider in roster order, the last of them by unassigned, unassigned by the
\* first of them, and an entry that is neither (blocked, removed, absent) by
\* the first of them, or by unassigned when nobody is left.
C6_CycleSuccessor ==
    clicks >= 1 =>
        Lookup(schedule, clickDay) =
            Successor(RegularIds(clickDay), Lookup(before, clickDay))

C6_Witness ==
    /\ clicks >= 1
    /\ Len(RegularIds(clickDay)) = 1
    /\ Lookup(before, clickDay) \notin RiderIds \cup {Null, Undefined}
    /\ Lookup(schedule, clickDay) \in RiderIds

\* the latest manualAssign call left every other day as it was
OthersKept ==
    \A k \in (DOMAIN schedule) \cup (DOMAIN before) :
        k # clickDay => Lookup(schedule, k) = Lookup(before, k)

\* C7 as claimed: every call of manualAssign on a day that has an entry
\* changes that entry, changes no other entry and adds or removes no key.
C7_ExactlyOneChangesAlways ==
    (clicks >= 1 /\ clickDay \in DOMAIN before) =>
        /\ OthersKept
        /\ DOMAIN schedule = DOMAIN before
        /\ schedule[clickDay] # before[clickDay]

\* C7 as amended: every call of manualAssign on a day that has an entry
\* leaves the entries of all other days as they were and adds or removes no
\* key; the entry of the day changes except when the day is unassigned and
\* every rider is blocked on it (or the roster is empty), and then the
\* schedule is left as it was.
C7_ExactlyOneChanges ==
    (clicks >= 1 /\ clickDay \in DOMAIN before) =>
        /\ OthersKept
        /\ DOMAIN schedule = DOMAIN before
        /\ (schedule[clickDay] = before[clickDay])
               <=> (before[clickDay] = Null /\ NotBlockedOn(clickDay) = {})

C7_Witness ==
    /\ clicks >= 1
    /\ Cardinality(DOMAIN before) = 2
    /\ before[clickDay] \in RiderIds
    /\ schedule[clickDay] \in RiderIds
    /\ schedule[clickDay] # before[clickDay]
    /\ \E k \in DOMAIN before : k # clickDay /\ before[k] # Null

\* C8 as claimed: a run of generateSchedule with the start day after the end
\* day publishes nothing (schedule and view stay as they were), and a range
\* whose start equals its end expands to exactly one day.
C8_InvalidRangeFails ==
    /\ [][(GenComplete /\ pc' = "idle" /\ DateBefore(config.endDate, config.startDate))
              => (schedule' = schedule /\ view' = view)]_vars
    /\ []((pc # "idle" /\ config.startDate = config.endDate) => Len(dates) = 1)

\* C9 as claimed: for start not after end, generateDates returns the
\* inclusive number of calendar days, the first is start, the last is end,
\* and each is the calendar day after its predecessor.
C9_ExpansionExact ==
    (expanded.called /\ ~DateBefore(config.endDate, config.startDate)) =>
        LET r == expanded.result
        IN  /\ Len(r) = InclusiveDays(config.startDate, config.endDate)
            /\ formatDate(r[1]) = config.startDate
            /\ formatDate(r[Len(r)]) = config.endDate
            /\ \A n \in 1..(Len(r) - 1) :
                   formatDate(r[n + 1]) = NextCalendarDay(formatDate(r[n]))

\* C10 as claimed: for every event DTSTART is the event's date as YYYYMMDD,
\* DTEND is the following calendar day as YYYYMMDD, and the two differ.
C10_NextDayEnd ==
    ical.called =>
        \A n \in DOMAIN events :
            LET day == events[n].date
                next == NextCalendarDay(day)
            IN  /\ ical.result[n].DTSTART = Digits(day[1], day[2], day[3])
                /\ ical.result[n].DTEND = Digits(next[1], next[2], next[3])
                /\ ical.result[n].DTEND # ical.result[n].DTSTART

-----------------------------------------------------------------------------
(* Reading the text of a calendar back.                                    *)

\* the indices where a CRLF starts
BreaksOf(text) ==
    {p \in 1..(Len(text) - 1) : text[p] = "\r" /\ text[p + 1] = "\n"}

\* the pieces of text from index from on that lie between the CRLFs
RECURSIVE SplitAt(_, _, _)
SplitAt(text, from, breaks) ==
    LET ahead == {p \in breaks : p >= from}
    IN  IF ahead = {} THEN <<SubSeq(text, from, Len(text))>>
        ELSE LET p == CHOOSE q \in ahead : \A r \in ahead : q <= r
             IN  <<SubSeq(text, from, p - 1)>> \o SplitAt(text, p + 2, breaks)

SplitCRLF(text) == SplitAt(text, 1, BreaksOf(text))

\* the content lines: every line that starts with a space continues the
\* line before it
RECURSIVE UnfoldLines(_, _)
UnfoldLines(lines, acc) ==
    IF lines = <<>> THEN acc
    ELSE LET l == Head(lines)
         IN  IF l # <<>> /\ l[1] = " " /\ acc # <<>>
             THEN UnfoldLines(Tail(lines), [acc EXCEPT ![Len(acc)] = @ \o Tail(l)])
             ELSE UnfoldLines(Tail(lines), Append(acc, l))

OutputLines == SplitCRLF(content.result)
ContentLines == UnfoldLines(OutputLines, <<>>)

HasPrefix(line, prefix) ==
    Len(line) >= Len(prefix) /\ SubSeq(line, 1, Len(prefix)) = prefix

\* what follows the name of a content line
ValueOf(line, name) == SubSeq(line, Len(name) + 1, Len(line))

HeaderCount == Len(HeaderLines)

\* the j-th content line of the k-th VEVENT block of a well-formed document
BlockLine(k, j) == ContentLines[HeaderCount + 9 * (k - 1) + j]

\* C11: no line of the output, split on CRLF, is longer than 75 octets
C11_LinesWithin75Octets ==
    content.called =>
        \A n \in DOMAIN OutputLines : OctetLength(OutputLines[n]) <= 75

\* C12: the output is the five header lines, then one BEGIN:VEVENT ..
\* END:VEVENT block per input event in input order, then END:VCALENDAR, with
\* CRLF between all lines; an empty list gives no BEGIN:VEVENT
C12_DocumentStructure ==
    content.called =>
        /\ content.result = Join(OutputLines, CRLF)
        /\ Len(ContentLines) = HeaderCount + 9 * Len(events) + 1
        /\ SubSeq(ContentLines, 1, HeaderCount) = HeaderLines
        /\ ContentLines[Len(ContentLines)] = EndCalendar
        /\ \A k \in DOMAIN events :
               /\ BlockLine(k, 1) = BeginEvent
               /\ BlockLine(k, 5) = UidName \o Uid(events[k])
               /\ BlockLine(k, 9) = EndEvent
               /\ \A j \in 2..8 : BlockLine(k, j) \notin {BeginEvent, EndEvent}
        /\ Cardinality({n \in DOMAIN OutputLines : OutputLines[n] = BeginEvent})
               = Len(events)
        /\ Cardinality({n \in DOMAIN OutputLines : OutputLines[n] = EndEvent})
               = Len(events)

\* a document of two different events has been produced
C12_Witness ==
    /\ content.called
    /\ Len(events) = 2
    /\ events[1] # events[2]
    /\ BlockLine(2, 5) = UidName \o Uid(events[2])


\* the escape of one character
EscapeChar(c) ==
    CASE c = "\\" -> <<"\\", "\\">>
      [] c = ";" -> <<"\\", ";">>
      [] c = "," -> <<"\\", ",">>
      [] c = "\n" -> <<"\\", "n">>
      [] OTHER -> <<c>>

\* a text escaped character by character
CharByChar(text) == Join([n \in DOMAIN text |-> EscapeChar(text[n])], <<>>)

\* reading an escaped text back from index p on: a backslash announces one
\* escaped character
RECURSIVE UnescapeFrom(_, _)
UnescapeFrom(text, p) ==
    IF p > Len(text) THEN <<>>
    ELSE IF text[p] = "\\" /\ p < Len(text)
         THEN <<(IF text[p + 1] = "n" THEN "\n" ELSE text[p + 1])>>
              \o UnescapeFrom(text, p + 2)
         ELSE <<text[p]>> \o UnescapeFrom(text, p + 1)

Unescape(text) == UnescapeFrom(text, 1)

WellFormed == Len(ContentLines) = HeaderCount + 9 * Len(events) + 1

\* the values of the SUMMARY and DESCRIPTION lines of block k
SummaryValue(k) == ValueOf(BlockLine(k, 6), SummaryName)
DescriptionValue(k) == ValueOf(BlockLine(k, 7), DescriptionName)

\* C13: escapeText works character by character (backslash, semicolon,
\* comma and newline get a backslash escape, everything else is kept, no
\* introduced backslash is doubled), the text can be read back from the
\* escaped value, and the value holds no raw newline
C13_EscapeCharByChar ==
    content.called =>
        /\ WellFormed
        /\ \A k \in DOMAIN events :
               /\ HasPrefix(BlockLine(k, 6), SummaryName)
               /\ HasPrefix(BlockLine(k, 7), DescriptionName)
               /\ SummaryValue(k) = CharByChar(events[k].eventName)
               /\ DescriptionValue(k) = CharByChar(events[k].description)
               /\ Unescape(SummaryValue(k)) = events[k].eventName
               /\ Unescape(DescriptionValue(k)) = events[k].description
               /\ "\n" \notin Range(SummaryValue(k))
               /\ "\n" \notin Range(DescriptionValue(k))

\* a description with a newline next to a backslash has been serialized
C13_Witness ==
    /\ content.called
    /\ Len(events) = 1
    /\ events[1].description = <<"\\", "\n">>
    /\ DescriptionValue(1) = <<"\\", "\\", "\\", "n">>


\* the value of the UID line of block k
UidValue(k) == ValueOf(BlockLine(k, 5), UidName)

\* C14: the UID of each VEVENT is '<event date>-<person id>@stablescheduler';
\* two events get the same UID only if they have the same date and the same
\* person id, so the UIDs of events on pairwise different days are pairwise
\* different
C14_UidInjective ==
    content.called =>
        /\ WellFormed
        /\ \A k \in DOMAIN events :
               /\ HasPrefix(BlockLine(k, 5), UidName)
               /\ UidValue(k) = DateText(events[k].date) \o <<"-">>
                                \o Decimal(events[k].riderId) \o UidDomain
        /\ \A j, k \in DOMAIN events :
               UidValue(j) = UidValue(k) =>
                   /\ events[j].date = events[k].date
                   /\ events[j].riderId = events[k].riderId
        /\ (\A j, k \in DOMAIN events : j # k => events[j].date # events[k].date)
               => \A j, k \in DOMAIN events : j # k => UidValue(j) # UidValue(k)

\* two events of one day and different people have been serialized
C14_Witness ==
    /\ content.called
    /\ Len(events) = 2
    /\ events[1].date = events[2].date
    /\ events[1].riderId # events[2].riderId
    /\ UidValue(1) # UidValue(2)


\* sched gives Saturday k and the Saturday a week before it to riders
TwoSaturdays(sched, k) ==
    /\ k \in DOMAIN sched
    /\ WeekdayOf(k) = 6
    /\ Shift(k, 0 - 7) \in DOMAIN sched
    /\ sched[k] # Null
    /\ sched[Shift(k, 0 - 7)] # Null

\* the C15 property of a schedule
SaturdayRepeatOnlyIfSole(sched) ==
    \A k \in DOMAIN sched :
        TwoSaturdays(sched, k) =>
            /\ (\E id \in NotBlockedOn(k) : id # sched[Shift(k, 0 - 7)])
                   => sched[k] # sched[Shift(k, 0 - 7)]
            /\ sched[k] = sched[Shift(k, 0 - 7)] => NotBlockedOn(k) = {sched[k]}

\* C15: in a generated schedule the rider of a Saturday differs from the
\* rider of the Saturday 7 days earlier whenever some other rider is not
\* blocked on it; the same rider holds both only as the sole rider not blocked
C15_SaturdayRepeat ==
    /\ pc \in {"pass1", "pass2"} => SaturdayRepeatOnlyIfSole(newSchedule)
    /\ (pc = "idle" /\ view = "calendar") => SaturdayRepeatOnlyIfSole(schedule)

\* a published schedule of a roster of two where one rider holds both
\* Saturdays, the other being blocked on the second
C15_Witness ==
    /\ pc = "idle"
    /\ view = "calendar"
    /\ Len(riders) = 2
    /\ \E k \in DOMAIN schedule :
           /\ TwoSaturdays(schedule, k)
           /\ schedule[k] = schedule[Shift(k, 0 - 7)]
           /\ NotBlockedOn(Shift(k, 0 - 7)) = RiderIds


\* the Friday, Saturday and Sunday of the nearest weekend that lies wholly
\* before Friday or Sunday k
PreviousWeekend(k) ==
    IF WeekdayOf(k) = 5
    THEN {Shift(k, 0 - 7), Shift(k, 0 - 6), Shift(k, 0 - 5)}
    ELSE {Shift(k, 0 - 9), Shift(k, 0 - 8), Shift(k, 0 - 7)}

WorkedOn(sched, id, days) == \E d \in days : Lookup(sched, d) = id

\* the riders left for Friday or Sunday k by the adjacency step: the day
\* before is final when k is processed, the day after is assigned only when
\* it is a Saturday
SurvivingAdjacency(sched, k) ==
    LET yesterdayWorker == Lookup(sched, Shift(k, 0 - 1))
        tomorrowWorker == IF WeekdayOf(k) = 5 THEN Lookup(sched, Shift(k, 1))
                          ELSE Undefined
        strict == {id \in NotBlockedOn(k) : id # yesterdayWorker /\ id # tomorrowWorker}
    IN  IF strict # {} THEN strict
        ELSE {id \in NotBlockedOn(k) : id # tomorrowWorker}

\* the rider of Friday or Sunday k did not work the previous weekend if a
\* rider left by the adjacency step did not
FreshWhenPossible(sched, k) ==
    (\E id \in SurvivingAdjacency(sched, k) : ~WorkedOn(sched, id, PreviousWeekend(k)))
        => ~WorkedOn(sched, sched[k], PreviousWeekend(k))

\* C16: the rider the fill pass chooses for a Friday or Sunday D did not work
\* on the previous weekend (D-7, D-6, D-5 for a Friday, D-9, D-8, D-7 for a
\* Sunday) whenever some rider surviving the adjacency step did not
C16_PreviousWeekendCheck ==
    GenComplete =>
        \A k \in DOMAIN newSchedule :
            (WeekdayOf(k) \in {5, 0} /\ newSchedule[k] # Null)
                => FreshWhenPossible(newSchedule, k)


\* Friday k and the Saturday after it are held by riders
FridayAndSaturday(sched, k) ==
    /\ k \in DOMAIN sched
    /\ WeekdayOf(k) = 5
    /\ Shift(k, 1) \in DOMAIN sched
    /\ sched[k] # Null
    /\ sched[Shift(k, 1)] # Null

\* C17: the fill pass never gives a day to the rider who already holds the
\* day after it, relaxation or not: whenever a Friday and the Saturday after
\* it are both held by riders, during the run and in the published schedule,
\* the riders differ
C17_FridayNotSaturdaysRider ==
    /\ \A k \in DOMAIN newSchedule :
           FridayAndSaturday(newSchedule, k) => newSchedule[k] # newSchedule[Shift(k, 1)]
    /\ \A k \in DOMAIN schedule :
           FridayAndSaturday(schedule, k) => schedule[k] # schedule[Shift(k, 1)]

\* a Friday that the relaxation gave to Thursday's rider, next to a Saturday
\* of another rider
C17_Witness ==
    /\ GenComplete
    /\ \E k \in DOMAIN newSchedule :
           /\ FridayAndSaturday(newSchedule, k)
           /\ newSchedule[k] = Lookup(newSchedule, Shift(k, 0 - 1))
           /\ newSchedule[Shift(k, 1)] \in NotBlockedOn(k)


\* the entry of every day of sched is null in exactly the cases of C18
UnassignedExactly(sched) ==
    \A k \in DOMAIN sched :
        IF WeekdayOf(k) = 6
        THEN sched[k] = Null <=> NotBlockedOn(k) = {}
        ELSE sched[k] = Null <=>
                 \/ NotBlockedOn(k) = {}
                 \/ /\ WeekdayOf(k) = 5
                    /\ NotBlockedOn(k) = {Lookup(sched, Shift(k, 1))}

\* C18: a run leaves a Saturday unassigned iff every rider is blocked on it,
\* and another day iff every rider not blocked on it holds the following day
\* when the day is filled, that is iff nobody is eligible or the day is a
\* Friday whose only eligible rider holds the next Saturday; every other day
\* of the range gets a rider
C18_UnassignedExactly ==
    /\ GenComplete => FullSchedule(newSchedule) /\ UnassignedExactly(newSchedule)
    /\ (pc = "idle" /\ view = "calendar") => UnassignedExactly(schedule)

\* a Friday left unassigned next to the Saturday of its only eligible rider,
\* followed by a Sunday that has a rider
C18_Witness ==
    /\ GenComplete
    /\ \E k \in DOMAIN newSchedule :
           /\ WeekdayOf(k) = 5
           /\ newSchedule[k] = Null
           /\ NotBlockedOn(k) = {Lookup(newSchedule, Shift(k, 1))}
           /\ Lookup(newSchedule, Shift(k, 2)) \in RiderIds


\* the days of sched held by rider id
DaysOf(sched, id) == Cardinality({k \in DOMAIN sched : sched[k] = id})

\* the counters of the run agree with the schedule built so far
CountersMatchSchedule ==
    pc \in {"pass1", "pass2"} =>
        /\ DOMAIN stats = RiderIds
        /\ \A id \in RiderIds :
               /\ stats[id].total = DaysOf(newSchedule, id)
               /\ stats[id].saturdays = SaturdaysOf(newSchedule, id)

\* the calendar view computes the counters the run ended with
DisplayMatchesCounters == GenComplete => renderCalendarViewStats(newSchedule) = stats

\* C19: the counters start at zero and move once per assignment, so after
\* every step of a run total[p] is the number of days and saturdays[p] the
\* number of Saturdays that the schedule built so far gives to p, and the
\* counters the calendar view computes from the finished schedule equal the
\* final counters
C19_CountersAreCounts == CountersMatchSchedule /\ DisplayMatchesCounters


\* rider a ranks strictly before rider b for a Saturday: fewer Saturdays, or
\* as many Saturdays and fewer days
AnchorKeyLess(st, a, b) ==
    \/ st[a].saturdays < st[b].saturdays
    \/ st[a].saturdays = st[b].saturdays /\ st[a].total < st[b].total

\* the step of Pass 1 that is being taken gives its Saturday to a rider of
\* minimal (Saturday count, total count) among the remaining candidates
AnchorChoiceMinimal ==
    (pc = "pass1" /\ i <= Len(AnchorDays(dates)) /\ i' = i + 1) =>
        LET date == AnchorDays(dates)[i]
            chosen == newSchedule'[formatDate(date)]
            candidates == AnchorCandidates(date, newSchedule)
        IN  chosen # Null =>
                /\ chosen \in candidates
                /\ \A b \in candidates : ~AnchorKeyLess(stats, b, chosen)

\* the step of Pass 2 that is being taken gives its day to a rider of
\* minimal total count among the remaining candidates
FillChoiceMinimal ==
    (pc = "pass2" /\ i <= Len(FillDays(dates)) /\ i' = i + 1) =>
        LET date == FillDays(dates)[i]
            chosen == newSchedule'[formatDate(date)]
            candidates == FillCandidates(date, newSchedule)
        IN  chosen # Null =>
                /\ chosen \in candidates
                /\ \A b \in candidates : ~(stats[b].total < stats[chosen].total)

\* C20: whenever a run assigns a day, the chosen rider has the minimal
\* ranking key, on the counters as they are at that moment, among the
\* candidates left by the filters of that day: (Saturday count, total count)
\* in lexicographic order on a Saturday, total count on any other day
C20_ChosenHasMinimalKey == [][AnchorChoiceMinimal /\ FillChoiceMinimal]_vars

\* the day of Pass 2 filled last went to a rider although another rider, not
\* blocked on it and not holding a day next to it, was there with more days
C20_Witness ==
    /\ pc = "pass2"
    /\ i >= 2
    /\ i <= Len(FillDays(dates)) + 1
    /\ LET k == formatDate(FillDays(dates)[i - 1])
           chosen == newSchedule[k]
       IN  /\ chosen # Null
           /\ \E b \in NotBlockedOn(k) \ {chosen} :
                  /\ b # Lookup(newSchedule, Shift(k, 0 - 1))
                  /\ b # Lookup(newSchedule, Shift(k, 1))
                  /\ stats[b].total >= stats[chosen].total
                  /\ stats[b].total > 0


\* the output lines in groups: a line that starts with a space belongs to
\* the group of the line before it
RECURSIVE GroupLines(_, _)
GroupLines(lines, acc) ==
    IF lines = <<>> THEN acc
    ELSE LET l == Head(lines)
         IN  IF l # <<>> /\ l[1] = " " /\ acc # <<>>
             THEN GroupLines(Tail(lines), [acc EXCEPT ![Len(acc)] = Append(@, l)])
             ELSE GroupLines(Tail(lines), Append(acc, <<l>>))

OutputGroups == GroupLines(OutputLines, <<>>)

\* segs without the space each segment after the first starts with
Unfolded(segs) ==
    Join([m \in DOMAIN segs |-> IF m = 1 THEN segs[m] ELSE Tail(segs[m])], <<>>)

\* segs is line folded the way C21 describes
FoldedAs(segs, line) ==
    /\ Len(segs) >= 1
    /\ Len(line) <= 75 => segs = <<line>>
    /\ Len(line) > 75 =>
           /\ Len(segs) >= 2
           /\ segs[1] = SubSeq(line, 1, 75)
           /\ \A m \in 2..Len(segs) :
                  /\ segs[m][1] = " "
                  /\ Len(segs[m]) - 1 \in 1..74
                  /\ m < Len(segs) => Len(segs[m]) - 1 = 74
    /\ Unfolded(segs) = line

\* C21: foldLine leaves a line of at most 75 characters as it is; a longer
\* line becomes its first 75 characters followed by segments of CRLF, one
\* space and the next 74 characters (fewer only in the last one), and taking
\* the inserted CRLF + space out again gives the line back
C21_FoldShape ==
    content.called =>
        /\ Len(OutputGroups) = HeaderCount + 9 * Len(events) + 1
        /\ \A k \in DOMAIN events : \A j \in 1..9 :
               FoldedAs(OutputGroups[HeaderCount + 9 * (k - 1) + j],
                        EventLines(events[k])[j])

\* a description line of more than 75 + 74 characters has been folded
C21_Witness ==
    /\ content.called
    /\ Len(events) = 1
    /\ events[1].description = Counting(140)
    /\ Len(OutputGroups[HeaderCount + 7]) = 3
    /\ Len(OutputGroups[HeaderCount + 7][3]) = 1 + 3


-----------------------------------------------------------------------------
(* The schedule on show in the calendar view.                              *)

\* the calendar days from the configured start to the configured end
ConfiguredDays ==
    IF DateBefore(config.endDate, config.startDate) THEN {}
    ELSE {Shift(config.startDate, k) :
              k \in 0..(InclusiveDays(config.startDate, config.endDate) - 1)}

\* sched has exactly the keys days, each unassigned or held by a rider of
\* the roster who has not blocked that day
ValidOver(sched, days) ==
    /\ DOMAIN sched = days
    /\ \A k \in DOMAIN sched : sched[k] = Null \/ sched[k] \in NotBlockedOn(k)

\* C22 as claimed: whenever the calendar view is shown, the published
\* schedule has exactly one key per day of the configured range, and each
\* value is unassigned or the id of a rider of the roster who has not blocked
\* that day; the schedule of a run still under way is never published.
C22_CalendarViewSchedule == view = "calendar" => ValidOver(schedule, ConfiguredDays)

\* the same over the days generateDates expands the configuration to
CalendarViewOverExpandedRange == view = "calendar" => ValidOver(schedule, RangeDays)

\* the same where local midnight is not after UTC midnight
CalendarViewEastOfUTC == tz >= 0 => (view = "calendar" => ValidOver(schedule, ConfiguredDays))

\* the calendar view after an override, with a rider blocked in the roster
CalendarViewReached ==
    /\ view = "calendar"
    /\ pc = "idle"
    /\ clicks > 0
    /\ BlockedPairs # {}
    /\ schedule # EmptyObject


-----------------------------------------------------------------------------
(* A run of generateSchedule against the run from nothing.                 *)

\* what one Pass 1 iteration can make of the pair p = <<schedule, counters>>
AnchorOutcomes(p, date) ==
    LET dateStr == formatDate(date)
        candidates == AnchorCandidates(date, p[1])
    IN  IF candidates = {} THEN {<<Unassign(p[1], dateStr), p[2]>>}
        ELSE {<<Put(p[1], dateStr, chosen), Count(p[2], chosen, TRUE)>> :
                  chosen \in AnchorFirst(candidates, p[2])}

\* what one Pass 2 iteration can make of the pair p
FillOutcomes(p, date) ==
    LET dateStr == formatDate(date)
        candidates == FillCandidates(date, p[1])
    IN  IF candidates = {} THEN {<<Unassign(p[1], dateStr), p[2]>>}
        ELSE {<<Put(p[1], dateStr, chosen), Count(p[2], chosen, FALSE)>> :
                  chosen \in FillFirst(candidates, p[2])}

\* the pairs n iterations of Pass 1 over ds can reach from the empty
\* schedule and zeroed counters, over all tie-breaks
RECURSIVE FreshAnchored(_, _)
FreshAnchored(ds, n) ==
    IF n = 0 THEN {<<EmptyObject, ZeroStats>>}
    ELSE UNION {AnchorOutcomes(p, AnchorDays(ds)[n]) : p \in FreshAnchored(ds, n - 1)}

\* the pairs all of Pass 1 and n iterations of Pass 2 can reach from there
RECURSIVE FreshFilled(_, _)
FreshFilled(ds, n) ==
    IF n = 0 THEN FreshAnchored(ds, Len(AnchorDays(ds)))
    ELSE UNION {FillOutcomes(p, FillDays(ds)[n]) : p \in FreshFilled(ds, n - 1)}

\* the schedules a run from nothing can publish for the configuration and
\* roster of the state; schedule, prior and the clicks do not occur in it
FreshSchedules ==
    LET ds == generateDates(config.startDate, config.endDate)
    IN  {p[1] : p \in FreshFilled(ds, Len(FillDays(ds)))}

\* the run under way is, after each of its steps, where a run from nothing
\* with the same tie-breaks is
RunIsFresh ==
    LET ds == generateDates(config.startDate, config.endDate)
    IN  /\ pc = "pass1" => <<newSchedule, stats>> \in FreshAnchored(ds, i - 1)
        /\ pc = "pass2" => <<newSchedule, stats>> \in FreshFilled(ds, i - 1)

\* C23: each run of generateSchedule starts from the empty schedule and
\* zeroed counters, and for the same range, roster and tie-breaks it goes
\* through and publishes what a run from nothing does, whatever schedule was
\* published before: earlier assignments and overrides neither influence
\* the result nor survive in it.
C23_RunIgnoresPublished ==
    /\ (pc = "pass1" /\ i = 1) => (newSchedule = EmptyObject /\ stats = ZeroStats)
    /\ RunIsFresh
    /\ (pc = "idle" /\ view = "calendar" /\ clicks = 0) => schedule \in FreshSchedules

\* a re-roll from the calendar view is done, over a schedule with an
\* override in it that no run could have produced
C23_Witness ==
    /\ GenComplete
    /\ prior.view = "calendar"
    /\ clicks > 0
    /\ DOMAIN prior.schedule = DOMAIN newSchedule
    /\ prior.schedule \notin FreshSchedules
    /\ \E k \in DOMAIN newSchedule : newSchedule[k] # Null

\* a run from the setup view is done after the range was shortened and a
\* rider removed: the published schedule holds a day and a rider that the
\* new one must not
C23_WitnessStale ==
    /\ GenComplete
    /\ prior.view = "setup"
    /\ \E k \in DOMAIN prior.schedule : k \notin DOMAIN newSchedule
    /\ \E k \in DOMAIN prior.schedule : prior.schedule[k] \notin RiderIds \cup {Null}


-----------------------------------------------------------------------------
(* Reading a downloaded calendar back.                                     *)

\* the indices of the line feeds of a text
LineFeeds(text) == {p \in 1..Len(text) : text[p] = "\n"}

\* the pieces of text from index from on that lie between the line feeds
RECURSIVE LinesFrom(_, _, _)
LinesFrom(text, from, breaks) ==
    LET ahead == {p \in breaks : p >= from}
    IN  IF ahead = {} THEN <<SubSeq(text, from, Len(text))>>
        ELSE LET p == CHOOSE q \in ahead : \A r \in ahead : q <= r
             IN  <<SubSeq(text, from, p - 1)>> \o LinesFrom(text, p + 1, breaks)

DownloadLines == LinesFrom(download.result, 1, LineFeeds(download.result))

\* the day of a key as eight digits
EightDigits(k) == Decimal(Digits(k[1], k[2], k[3]))

\* lines n .. n+6 are a VEVENT block of day k
BlockAt(lines, n, k) ==
    /\ n + 6 \in DOMAIN lines
    /\ lines[n] = BeginEvent
    /\ lines[n + 1] = DtStartName \o EightDigits(k)
    /\ lines[n + 2] = DtEndName \o EightDigits(k)
    /\ lines[n + 6] = EndEvent
    /\ \A j \in 1..5 : lines[n + j] \notin {BeginEvent, EndEvent}

\* the days the schedule that the call read gives to the rider it was for
DownloadedDays == {k \in DOMAIN download.schedule : download.schedule[k] = download.riderId}

\* C24: downloadICal saves a document exactly when the id is one of the
\* roster; the document has one VEVENT block for each day whose schedule
\* entry is that id, none for any other day of the schedule, and no further
\* BEGIN:VEVENT or END:VEVENT line, so none at all when the rider has no day.
C24_OneEventPerOwnDay ==
    download.called =>
        /\ download.saved <=> download.riderId \in RiderIds
        /\ download.saved =>
               /\ \A k \in DOMAIN download.schedule :
                      Cardinality({n \in DOMAIN DownloadLines : BlockAt(DownloadLines, n, k)})
                          = IF k \in DownloadedDays THEN 1 ELSE 0
               /\ Cardinality({n \in DOMAIN DownloadLines : DownloadLines[n] = BeginEvent})
                      = Cardinality(DownloadedDays)
               /\ Cardinality({n \in DOMAIN DownloadLines : DownloadLines[n] = EndEvent})
                      = Cardinality(DownloadedDays)

\* a document for a rider who has one day of a schedule whose other day is
\* another rider's, with a description of two lines
C24_Witness ==
    /\ download.called
    /\ download.saved
    /\ Cardinality(DownloadedDays) = 1
    /\ \E k \in DOMAIN download.schedule :
           download.schedule[k] \notin {Null, download.riderId}
    /\ \E n \in DOMAIN DownloadLines : HasPrefix(DownloadLines[n], DescriptionName \o <<"a">>)

\* a document for a rider who holds both days
DownloadOfTwoDays == download.called /\ download.saved /\ Cardinality(DownloadedDays) = 2

\* a document for a rider without a day, one of the days being unassigned
DownloadOfNoDay ==
    /\ download.called
    /\ download.saved
    /\ DownloadedDays = {}
    /\ \E k \in DOMAIN download.schedule : download.schedule[k] = Null

\* a call for an id that holds a day but is not in the roster
DownloadForStranger ==
    /\ download.called
    /\ ~download.saved
    /\ DownloadedDays # {}

=============================================================================
